---- MODULE Spec2Model ----
\* A model of the provisioning client of create-catalyst
\* (packages/create-catalyst/src/utils/https.ts): the Https class with its three
\* request builders (auth, api, sampleDataApi), the device-code calls and the
\* provisioning calls.  Every async method is split at its one `await` of the
\* request: the part up to the fetch ("...Call") and the part that handles the
\* response ("...Return").  The loop that polls checkDeviceCode, the order in
\* which the calls are made, and parse() live outside https.ts; they are modelled
\* from the design document and marked so where they are defined.
EXTENDS Integers, Sequences, FiniteSets, TLC

VARIABLES
    config,      \* the argument the constructor was called with
    https,       \* the five credential fields of the Https object
    pc,          \* the method the run is at (or "done")
    phase,       \* "call": about to invoke pc; "await": its request is in flight;
                 \* "sleep": the poll loop waits between two attempts
    outcome,     \* "running", or how the run ended
    calls,       \* method -> number of invocations
    fetched,     \* method -> number of requests handed to fetch
    responses,   \* number of responses received
    errors,      \* console.error lines written
    warnings,    \* console.warn lines written
    lastStatus,  \* HTTP status of the latest response (0: none yet)
    lastBody,    \* the latest body read with response.json()
    ret,         \* value returned by the latest method that returned
    deviceCode,  \* the DeviceCode getDeviceCode returned
    grant,       \* the TokenGrant checkDeviceCode returned
    grants,      \* number of grants produced
    elapsed,     \* seconds since the device code was issued (poll loop clock)
    cancel       \* the external cancellation signal has been raised

vars == <<config, https, pc, phase, outcome, calls, fetched, responses, errors,
          warnings, lastStatus, lastBody, ret, deviceCode, grant, grants,
          elapsed, cancel>>

\* ---------------------------------------------------------------- bounds
MaxExpires == 4
MaxInterval == 3

\* ---------------------------------------------------------------- JSON values
\* A JSON leaf, tagged with its JavaScript type.
Undefined == [t |-> "undefined", n |-> 0, s |-> ""]
Num(n) == [t |-> "number", n |-> n, s |-> ""]
Str(s) == [t |-> "string", n |-> 0, s |-> s]
Bool(b) == [t |-> "boolean", n |-> IF b THEN 1 ELSE 0, s |-> ""]
Obj == [t |-> "object", n |-> 0, s |-> ""]

NoValue == [t |-> "none"]

\* zod's leaf checks
zNumber(v) == v.t = "number"
zString(v) == v.t = "string"
zBoolean(v) == v.t = "boolean"
zObject(v) == v.t = "object"
\* Variant: the string check without its minimum length
zStringNoMin(v) == v.t = "string"

zStringMin1(v) == v.t = "string" /\ Len(v.s) >= 1
\* z.string().url(): the strings of the model that the URL constructor accepts
Urls == {"https://api.bigcommerce.com"}
zStringUrl(v) == v.t = "string" /\ v.s \in Urls

\* ---------------------------------------------------------------- methods
Methods == <<"getDeviceCode", "checkDeviceCode", "storeInformation", "channels",
             "createChannelMenus", "storefrontToken", "checkEligibility",
             "createChannel">>
MethodSet == {Methods[i] : i \in 1..Len(Methods)}
Index(m) == CHOOSE i \in 1..Len(Methods) : Methods[i] = m
Statuses == {200, 201, 403, 500}

\* requests handed to fetch and not yet answered
Total(f) ==
    f["getDeviceCode"] + f["checkDeviceCode"] + f["storeInformation"] + f["channels"]
    + f["createChannelMenus"] + f["storefrontToken"] + f["checkEligibility"]
    + f["createChannel"]

inflight == Total(fetched) - responses

\* Response.ok
Ok(status) == status >= 200 /\ status <= 299

\* ---------------------------------------------------------------- constructor
Given == {"undefined", "", "v"}
Configs == [bigCommerceApiUrl : Given, bigCommerceAuthUrl : Given,
            sampleDataApiUrl : Given, storeHash : Given, accessToken : Given]

\* x ?? ''
OrEmpty(x) == IF x = "undefined" THEN "" ELSE x

Constructor(c) ==
    [bigCommerceApiUrl |-> OrEmpty(c.bigCommerceApiUrl),
     bigCommerceAuthUrl |-> OrEmpty(c.bigCommerceAuthUrl),
     sampleDataApiUrl |-> OrEmpty(c.sampleDataApiUrl),
     storeHash |-> OrEmpty(c.storeHash),
     accessToken |-> OrEmpty(c.accessToken)]

Init ==
    /\ config \in Configs
    /\ https = Constructor(config)
    /\ pc \in {"getDeviceCode", "storeInformation"}
    /\ phase = "call"
    /\ outcome = "running"
    /\ calls = [m \in MethodSet |-> 0]
    /\ fetched = [m \in MethodSet |-> 0]
    /\ responses = 0
    /\ errors = 0
    /\ warnings = 0
    /\ lastStatus = 0
    /\ lastBody = NoValue
    /\ ret = NoValue
    /\ deviceCode = NoValue
    /\ grant = NoValue
    /\ grants = 0
    /\ elapsed = 0
    /\ cancel = FALSE

\* ---------------------------------------------------------------- builders
\* !s for a string s
Falsy(s) == s = ""

\* Each builder either throws before fetch or hands one request to fetch.
\* The operator is TRUE when the builder reaches fetch.
auth == ~Falsy(https.bigCommerceAuthUrl)

\* Variant: api with the access token left out of the check
apiWithoutTokenCheck == ~(Falsy(https.bigCommerceApiUrl) \/ Falsy(https.storeHash))

api ==
    ~(Falsy(https.bigCommerceApiUrl) \/ Falsy(https.storeHash)
      \/ Falsy(https.accessToken))

sampleDataApi ==
    ~(Falsy(https.sampleDataApiUrl) \/ Falsy(https.storeHash)
      \/ Falsy(https.accessToken))

Fetch(m) ==
    /\ fetched' = [fetched EXCEPT ![m] = @ + 1]
    /\ phase' = "await"
    /\ outcome' = outcome

\* throw new Error('... required to make API requests')
ThrowError ==
    /\ outcome' = "Error"
    /\ UNCHANGED <<fetched, phase>>

Invoke(m, builder) ==
    /\ calls' = [calls EXCEPT ![m] = @ + 1]
    /\ IF builder THEN Fetch(m) ELSE ThrowError

At(m, ph) == pc = m /\ phase = ph /\ outcome = "running"

CallFrame ==
    UNCHANGED <<config, https, pc, responses, errors, warnings, lastStatus,
                lastBody, ret, deviceCode, grant, grants, elapsed, cancel>>

\* ---------------------------------------------------------------- responses
\* the awaited fetch resolves with a response of this status
Respond(status) ==
    /\ responses' = responses + 1
    /\ lastStatus' = status

\* await response.json(): the body is read on the paths that reach it
Json(body) == lastBody' = body
NoJson == lastBody' = lastBody

\* The order in which the run makes its calls: device code, poll, then the
\* provisioning sequence 1..6 of the design document (4.4); the callers are
\* outside https.ts.  A run starts at the device code, or, with credentials
\* supplied, at the store information.
NextOf(m) == IF Index(m) = Len(Methods) THEN "done" ELSE Methods[Index(m) + 1]

\* return value
Return(value, next) ==
    /\ ret' = value
    /\ pc' = next
    /\ phase' = "call"
    /\ outcome' = IF next = "done" THEN "done" ELSE outcome
    /\ UNCHANGED <<errors, warnings, fetched>>

\* console.error(...); process.exit(1)
ExitWithError ==
    /\ outcome' = "exit1"
    /\ errors' = errors + 1
    /\ ret' = NoValue
    /\ phase' = "call"
    /\ UNCHANGED <<pc, warnings, fetched>>

\* parse(raw, schema) of ./parse: the validated value, or a fatal validation error.
\* (./parse is outside https.ts: taken from the design document, 4.1 and 7.)
ValidationError ==
    /\ outcome' = "ValidationError"
    /\ ret' = NoValue
    /\ phase' = "call"
    /\ UNCHANGED <<pc, errors, warnings, fetched>>

parse(valid, value, next) == IF valid THEN Return(value, next) ELSE ValidationError

\* Variant: a method that keeps the access token of the body it read
FieldsKeepToken(value) ==
    https' = IF "access_token" \in DOMAIN value /\ value.access_token.t = "string"
             THEN [https EXCEPT !.accessToken = value.access_token.s]
             ELSE https

\* What a method writes to the fields of `this`, given the value it obtained:
\* no method of the class assigns a field after the constructor.
Fields(value) == https' = https

ReturnFrame == UNCHANGED <<config, calls, elapsed, cancel>>

\* ---------------------------------------------------------------- getDeviceCode
DeviceCodeBodies ==
    [device_code : {Str("abc"), Undefined},
     user_code : {Str("XYZ")},
     verification_uri : {Str("https://x")},
     expires_in : {Num(e) : e \in 1..MaxExpires} \cup {Str("60")},
     interval : {Num(i) : i \in 1..MaxInterval} \cup {Undefined}]

DeviceCodeSchema(b) ==
    /\ zString(b.device_code)
    /\ zString(b.user_code)
    /\ zString(b.verification_uri)
    /\ zNumber(b.expires_in)
    /\ zNumber(b.interval)

DeviceCode(b) ==
    [device_code |-> b.device_code, user_code |-> b.user_code,
     verification_uri |-> b.verification_uri, expires_in |-> b.expires_in,
     interval |-> b.interval]

getDeviceCodeCall ==
    /\ At("getDeviceCode", "call")
    /\ Invoke("getDeviceCode", auth)
    /\ CallFrame

getDeviceCodeNotOk == ExitWithError

getDeviceCodeReturn ==
    /\ At("getDeviceCode", "await")
    /\ \E status \in Statuses :
        /\ Respond(status)
        /\ IF ~Ok(status)
           THEN getDeviceCodeNotOk /\ NoJson /\ Fields(NoValue) /\ UNCHANGED deviceCode
           ELSE \E body \in DeviceCodeBodies :
                /\ Json(body)
                /\ Fields(body)
                /\ parse(DeviceCodeSchema(body), DeviceCode(body), NextOf("getDeviceCode"))
                /\ deviceCode' = IF DeviceCodeSchema(body) THEN DeviceCode(body)
                                 ELSE deviceCode
    /\ UNCHANGED <<grant, grants>>
    /\ ReturnFrame

\* ---------------------------------------------------------------- checkDeviceCode
TokenBodies ==
    [access_token : {Str("tok"), Str("tok2"), Undefined},
     store_hash : {Str("hash"), Num(1)},
     context : {Str("stores/hash")},
     api_uri : {Str("https://api.bigcommerce.com"), Str("api")},
     extra : {Undefined, Str("x")}]

DeviceCodeSuccessSchema(b) ==
    /\ zString(b.access_token)
    /\ zString(b.store_hash)
    /\ zString(b.context)
    /\ zStringUrl(b.api_uri)

\* Variant: the grant built with the store hash in place of the access token
DeviceCodeSuccessSwapped(b) ==
    [access_token |-> b.store_hash, store_hash |-> b.store_hash,
     context |-> b.context, api_uri |-> b.api_uri]

DeviceCodeSuccess(b) ==
    [access_token |-> b.access_token, store_hash |-> b.store_hash,
     context |-> b.context, api_uri |-> b.api_uri]

checkDeviceCodeCall == Invoke("checkDeviceCode", auth)

\* Variant: the test written with response.ok
NotYetVerifiedNotOk(status) == ~Ok(status)

\* if (response.status !== 200) throw new Error('Device code not yet verified')
NotYetVerified(status) == status # 200

\* The poll loop takes the Error of an attempt as "pending" and sleeps
\* (design document 4.3: any other status, remain Polling, continue).
Pending ==
    /\ phase' = "sleep"
    /\ ret' = NoValue
    /\ UNCHANGED <<pc, outcome, errors, warnings, fetched>>

checkDeviceCodeReturn ==
    /\ At("checkDeviceCode", "await")
    /\ \E status \in Statuses :
        /\ Respond(status)
        /\ IF NotYetVerified(status)
           THEN Pending /\ NoJson /\ Fields(NoValue) /\ UNCHANGED <<grant, grants>>
           ELSE \E body \in TokenBodies :
                /\ Json(body)
                /\ Fields(body)
                /\ parse(DeviceCodeSuccessSchema(body), DeviceCodeSuccess(body),
                         NextOf("checkDeviceCode"))
                /\ IF DeviceCodeSuccessSchema(body)
                   THEN grant' = DeviceCodeSuccess(body) /\ grants' = grants + 1
                   ELSE UNCHANGED <<grant, grants>>
    /\ UNCHANGED deviceCode
    /\ ReturnFrame

\* ---------------------------------------------------------------- the poll loop
\* The loop is outside https.ts and is taken from the design document (4.3, 5, 9):
\* attempts one pollIntervalSeconds apart, the first when the code is issued, none
\* once expiresInSeconds have elapsed, cancellation looked at on every iteration
\* boundary.  One boundary: the cancellation signal is looked at first, then the
\* deadline, and only then is the next attempt made.

\* Variant: the deadline test that lets an attempt start at the deadline itself
ExpiredLate == elapsed > deviceCode.expires_in.n

\* the deadline has been reached
Expired == elapsed >= deviceCode.expires_in.n

\* Variant: the loop without its look at the cancellation signal
pollForTokenUncancellable ==
    /\ At("checkDeviceCode", "call")
    /\ IF Expired
       THEN /\ outcome' = "AuthTimeoutError"
            /\ UNCHANGED <<calls, fetched, phase>>
       ELSE checkDeviceCodeCall
    /\ CallFrame

pollForToken ==
    /\ At("checkDeviceCode", "call")
    /\ IF cancel
       THEN /\ outcome' = "cancelled"
            /\ UNCHANGED <<calls, fetched, phase>>
       ELSE IF Expired
       THEN /\ outcome' = "AuthTimeoutError"
            /\ UNCHANGED <<calls, fetched, phase>>
       ELSE checkDeviceCodeCall
    /\ CallFrame

\* The sleep of pollIntervalSeconds between two attempts; a cancellation signal
\* ends it early.
pollSleep ==
    /\ At("checkDeviceCode", "sleep")
    /\ elapsed' = IF cancel THEN elapsed ELSE elapsed + deviceCode.interval.n
    /\ phase' = "call"
    /\ UNCHANGED <<config, https, pc, outcome, calls, fetched, responses, errors,
                   warnings, lastStatus, lastBody, ret, deviceCode, grant, grants,
                   cancel>>

\* The external cancellation signal (a user interrupt) while the loop runs.
Cancel ==
    /\ pc = "checkDeviceCode"
    /\ outcome = "running"
    /\ ~cancel
    /\ cancel' = TRUE
    /\ UNCHANGED <<config, https, pc, phase, outcome, calls, fetched, responses,
                   errors, warnings, lastStatus, lastBody, ret, deviceCode, grant,
                   grants, elapsed>>

\* ---------------------------------------------------------------- storeInformation
\* {features: {storefront_limits: {active, total_including_inactive}}}, the two
\* nested objects flattened into one field
StoreInfoBodies ==
    [features_storefront_limits : {Obj, Undefined},
     active : {Num(1), Undefined},
     total_including_inactive : {Num(2), Str("2")}]

BigCommerceStoreInfo(b) ==
    /\ zObject(b.features_storefront_limits)
    /\ zNumber(b.active)
    /\ zNumber(b.total_including_inactive)

StoreInfo(b) ==
    [features_storefront_limits |-> b.features_storefront_limits,
     active |-> b.active,
     total_including_inactive |-> b.total_including_inactive]

storeInformationCall ==
    /\ At("storeInformation", "call")
    /\ Invoke("storeInformation", api)
    /\ CallFrame

storeInformationNotOk == ExitWithError

storeInformationReturn ==
    /\ At("storeInformation", "await")
    /\ \E status \in Statuses :
        /\ Respond(status)
        /\ IF ~Ok(status)
           THEN storeInformationNotOk /\ NoJson /\ Fields(NoValue)
           ELSE \E body \in StoreInfoBodies :
                /\ Json(body)
                /\ Fields(body)
                /\ parse(BigCommerceStoreInfo(body), StoreInfo(body),
                      NextOf("storeInformation"))
    /\ UNCHANGED <<deviceCode, grant, grants>>
    /\ ReturnFrame

\* ---------------------------------------------------------------- channels
Channel(id, name) ==
    [id |-> id, name |-> name, status |-> Str("active"), platform |-> Str("catalyst")]

ChannelLists ==
    {<<>>, <<Channel(Num(1), Str("a"))>>,
     <<Channel(Num(2), Str("b")), Channel(Num(1), Str("a"))>>,
     <<Channel(Num(1), Str("a")), Channel(Str("2"), Str("b"))>>}

ChannelsBodies ==
    [data : {[t |-> "array", items |-> l] : l \in ChannelLists} \cup {Undefined},
     meta : {Obj, Undefined}]

ChannelSchema(c) ==
    /\ zNumber(c.id)
    /\ zString(c.name)
    /\ zString(c.status)
    /\ zString(c.platform)

BigCommerceChannelsV3ResponseSchema(b) ==
    /\ b.data.t = "array"
    /\ \A i \in 1..Len(b.data.items) : ChannelSchema(b.data.items[i])
    /\ zObject(b.meta)

ChannelsV3Response(b) == [data |-> b.data, meta |-> b.meta]

channelsCall ==
    /\ At("channels", "call")
    /\ Invoke("channels", api)
    /\ CallFrame

\* Variant: a failed listing reported as a warning, the run going on
channelsNotOkWarns ==
    /\ warnings' = warnings + 1
    /\ ret' = Undefined
    /\ pc' = NextOf("channels")
    /\ phase' = "call"
    /\ UNCHANGED <<outcome, errors, fetched>>

channelsNotOk == ExitWithError

channelsReturn ==
    /\ At("channels", "await")
    /\ \E status \in Statuses :
        /\ Respond(status)
        /\ IF ~Ok(status)
           THEN channelsNotOk /\ NoJson /\ Fields(NoValue)
           ELSE \E body \in ChannelsBodies :
                /\ Json(body)
                /\ Fields(body)
                /\ parse(BigCommerceChannelsV3ResponseSchema(body),
                      ChannelsV3Response(body), NextOf("channels"))
    /\ UNCHANGED <<deviceCode, grant, grants>>
    /\ ReturnFrame

\* ---------------------------------------------------------------- createChannelMenus
createChannelMenusCall ==
    /\ At("createChannelMenus", "call")
    /\ Invoke("createChannelMenus", api)
    /\ CallFrame

\* Variant: a failed menu creation treated like the other failures
createChannelMenusNotOkExits == ExitWithError

\* console.warn(...), and the method returns normally
createChannelMenusNotOk ==
    /\ warnings' = warnings + 1
    /\ ret' = Undefined
    /\ pc' = NextOf("createChannelMenus")
    /\ phase' = "call"
    /\ UNCHANGED <<outcome, errors, fetched>>

createChannelMenusReturn ==
    /\ At("createChannelMenus", "await")
    /\ \E status \in Statuses :
        /\ Respond(status)
        /\ IF ~Ok(status)
           THEN createChannelMenusNotOk
           ELSE Return(Undefined, NextOf("createChannelMenus"))
        /\ NoJson
        /\ Fields(NoValue)
    /\ UNCHANGED <<deviceCode, grant, grants>>
    /\ ReturnFrame

\* ---------------------------------------------------------------- storefrontToken
StorefrontTokenBodies == [data : {Obj, Undefined}, token : {Str("sf"), Undefined}]

BigCommerceStorefrontTokenSchema(b) == zObject(b.data) /\ zString(b.token)

StorefrontToken(b) == [data |-> b.data, token |-> b.token]

storefrontTokenCall ==
    /\ At("storefrontToken", "call")
    /\ Invoke("storefrontToken", api)
    /\ CallFrame

\* Variant: the request sent again when the answer is not ok
storefrontTokenRetry ==
    /\ fetched' = [fetched EXCEPT !["storefrontToken"] = @ + 1]
    /\ UNCHANGED <<outcome, errors, warnings, ret, pc, phase>>

storefrontTokenNotOk == ExitWithError

storefrontTokenReturn ==
    /\ At("storefrontToken", "await")
    /\ \E status \in Statuses :
        /\ Respond(status)
        /\ IF ~Ok(status)
           THEN storefrontTokenNotOk /\ NoJson /\ Fields(NoValue)
           ELSE \E body \in StorefrontTokenBodies :
                /\ Json(body)
                /\ Fields(body)
                /\ parse(BigCommerceStorefrontTokenSchema(body), StorefrontToken(body),
                      NextOf("storefrontToken"))
    /\ UNCHANGED <<deviceCode, grant, grants>>
    /\ ReturnFrame

\* ---------------------------------------------------------------- checkEligibility
EligibilityBodies ==
    [data : {Obj, Undefined},
     eligible : {Bool(TRUE), Bool(FALSE), Str("yes")},
     message : {Str("ok")}]

CheckEligibilitySchema(b) ==
    /\ zObject(b.data)
    /\ zBoolean(b.eligible)
    /\ zString(b.message)

Eligibility(b) == [data |-> b.data, eligible |-> b.eligible, message |-> b.message]

checkEligibilityCall ==
    /\ At("checkEligibility", "call")
    /\ Invoke("checkEligibility", sampleDataApi)
    /\ CallFrame

checkEligibilityNotOk == ExitWithError

checkEligibilityReturn ==
    /\ At("checkEligibility", "await")
    /\ \E status \in Statuses :
        /\ Respond(status)
        /\ IF ~Ok(status)
           THEN checkEligibilityNotOk /\ NoJson /\ Fields(NoValue)
           ELSE \E body \in EligibilityBodies :
                /\ Json(body)
                /\ Fields(body)
                /\ parse(CheckEligibilitySchema(body), Eligibility(body),
                      NextOf("checkEligibility"))
    /\ UNCHANGED <<deviceCode, grant, grants>>
    /\ ReturnFrame

\* ---------------------------------------------------------------- createChannel
CreateChannelBodies ==
    [data : {Obj, Undefined},
     id : {Num(7), Str("7")},
     name : {Str("demo"), Str(""), Undefined},
     storefront_api_token : {Str("tok"), Undefined}]

SampleDataChannelCreateSchema(b) ==
    /\ zObject(b.data)
    /\ zNumber(b.id)
    /\ zStringMin1(b.name)
    /\ zString(b.storefront_api_token)

SampleDataChannelCreate(b) ==
    [data |-> b.data, id |-> b.id, name |-> b.name,
     storefront_api_token |-> b.storefront_api_token]

createChannelCall ==
    /\ At("createChannel", "call")
    /\ Invoke("createChannel", sampleDataApi)
    /\ CallFrame

createChannelNotOk == ExitWithError

createChannelReturn ==
    /\ At("createChannel", "await")
    /\ \E status \in Statuses :
        /\ Respond(status)
        /\ IF ~Ok(status)
           THEN createChannelNotOk /\ NoJson /\ Fields(NoValue)
           ELSE \E body \in CreateChannelBodies :
                /\ Json(body)
                /\ Fields(body)
                /\ parse(SampleDataChannelCreateSchema(body),
                      SampleDataChannelCreate(body), NextOf("createChannel"))
    /\ UNCHANGED <<deviceCode, grant, grants>>
    /\ ReturnFrame

\* ---------------------------------------------------------------- specification
\* The steps of the program itself
Step ==
    \/ getDeviceCodeCall
    \/ getDeviceCodeReturn
    \/ pollForToken
    \/ checkDeviceCodeReturn
    \/ pollSleep
    \/ storeInformationCall
    \/ storeInformationReturn
    \/ channelsCall
    \/ channelsReturn
    \/ createChannelMenusCall
    \/ createChannelMenusReturn
    \/ storefrontTokenCall
    \/ storefrontTokenReturn
    \/ checkEligibilityCall
    \/ checkEligibilityReturn
    \/ createChannelCall
    \/ createChannelReturn

Next == Step \/ Cancel

Spec == Init /\ [][Next]_vars

\* The event loop runs every continuation that is ready, the sleep timer fires and
\* the transport answers every request; the cancellation signal may never come.
FairSpec == Spec /\ WF_vars(Step)

\* ================================================================ properties
BuilderOf(m) ==
    CASE m \in {"getDeviceCode", "checkDeviceCode"} -> "auth"
      [] m \in {"checkEligibility", "createChannel"} -> "sampleData"
      [] OTHER -> "api"

MissingOrEmpty(x) == x \in {"undefined", ""}

\* the credential set given at construction lacks a field the builder of m requires
Incomplete(m) ==
    CASE BuilderOf(m) = "auth" -> MissingOrEmpty(config.bigCommerceAuthUrl)
      [] BuilderOf(m) = "api" ->
            \/ MissingOrEmpty(config.bigCommerceApiUrl)
            \/ MissingOrEmpty(config.storeHash)
            \/ MissingOrEmpty(config.accessToken)
      [] BuilderOf(m) = "sampleData" ->
            \/ MissingOrEmpty(config.sampleDataApiUrl)
            \/ MissingOrEmpty(config.storeHash)
            \/ MissingOrEmpty(config.accessToken)

Invoked(m) == calls'[m] = calls[m] + 1

OneRequestPerInvocation ==
    /\ inflight \in {0, 1}
    /\ \A m \in MethodSet :
        /\ fetched[m] = IF Incomplete(m) THEN 0 ELSE calls[m]
        /\ m # "checkDeviceCode" => calls[m] <= 1

OneRequestPerInvocationWitness ==
    /\ outcome = "exit1"
    /\ pc = "storefrontToken"
    /\ lastStatus = 500
    /\ fetched["storefrontToken"] = 1
    /\ fetched["checkDeviceCode"] = 2

\* C10: the five credential fields keep the values the constructor gave them.
CredentialsUnchanged ==
    \A f \in DOMAIN https :
        https[f] = IF config[f] = "undefined" THEN "" ELSE config[f]

CredentialsUnchangedWitness ==
    /\ outcome = "done"
    /\ grants = 1
    /\ warnings = 1
    /\ fetched["checkDeviceCode"] = 2

\* The state of the device authenticator, read off the run.
AuthState ==
    CASE grants > 0 -> "Authorized"
      [] outcome = "AuthTimeoutError" -> "Expired"
      [] outcome = "cancelled" -> "Cancelled"
      [] outcome # "running" -> "Failed"
      [] pc = "checkDeviceCode" -> "Polling"
      [] pc = "getDeviceCode" /\ phase = "await" -> "CodeRequested"
      [] OTHER -> "Idle"

\* the step is the arrival of the answer to the request of method m
Answered(m) == pc = m /\ phase = "await" /\ responses' = responses + 1

\* C3: an answer 200 with a valid token body makes the authenticator Authorized,
\* the grant is the four fields of that body, it is the only grant of the run, and
\* no poll request is issued afterwards.
GrantOnceAndExact ==
    [][/\ (Answered("checkDeviceCode") /\ lastStatus' = 200
           /\ lastBody'.access_token.t = "string" /\ lastBody'.store_hash.t = "string"
           /\ lastBody'.context.t = "string" /\ lastBody'.api_uri.s \in Urls)
          => /\ AuthState' = "Authorized"
             /\ grants' = 1
             /\ ret' = grant'
             /\ grant'.access_token = lastBody'.access_token
             /\ grant'.store_hash = lastBody'.store_hash
             /\ grant'.context = lastBody'.context
             /\ grant'.api_uri = lastBody'.api_uri
             /\ DOMAIN grant' = {"access_token", "store_hash", "context", "api_uri"}
       /\ grants >= 1
          => /\ fetched'["checkDeviceCode"] = fetched["checkDeviceCode"]
             /\ calls'["checkDeviceCode"] = calls["checkDeviceCode"]
             /\ grants' = grants
             /\ grant' = grant]_vars

GrantOnceAndExactWitness ==
    /\ grants = 1
    /\ grant.access_token = Str("tok2")
    /\ lastStatus = 200
    /\ fetched["checkDeviceCode"] = 3
    /\ fetched["storeInformation"] = 1

\* C4: an answer to a poll with any status but 200 yields no grant and leaves the
\* authenticator Polling; and while the deadline has not passed (and no
\* cancellation signal is up) the loop's next step is another poll request.
NonOkPollIsPending ==
    [][/\ (Answered("checkDeviceCode") /\ lastStatus' # 200)
          => /\ grants' = grants
             /\ grant' = grant
             /\ ret' = NoValue
             /\ AuthState' = "Polling"
       /\ (At("checkDeviceCode", "sleep") /\ ~cancel')
          => At("checkDeviceCode", "call")'
       /\ (At("checkDeviceCode", "call") /\ ~cancel' /\ lastStatus # 200
           /\ elapsed < deviceCode.expires_in.n)
          => fetched'["checkDeviceCode"] = fetched["checkDeviceCode"] + 1]_vars

NonOkPollIsPendingWitness ==
    /\ At("checkDeviceCode", "await")
    /\ lastStatus = 201
    /\ fetched["checkDeviceCode"] = 2
    /\ grants = 0

\* C5: an answer that is not 2xx to the channel-menus call does not end the run:
\* the call returns, one warning is written, and the next step of the run hands
\* the storefront-token request to fetch.
MenusFailureOnlyWarns ==
    [][/\ (Answered("createChannelMenus") /\ ~Ok(lastStatus'))
          => /\ outcome' = "running"
             /\ warnings' = warnings + 1
             /\ errors' = errors
             /\ At("storefrontToken", "call")'
       /\ (At("storefrontToken", "call") /\ ~Ok(lastStatus))
          => fetched'["storefrontToken"] = fetched["storefrontToken"] + 1]_vars

MenusFailureOnlyWarnsWitness ==
    /\ pc = "storefrontToken"
    /\ phase = "await"
    /\ lastStatus = 500
    /\ warnings = 1
    /\ fetched["storefrontToken"] = 1

FatalMethods ==
    {"getDeviceCode", "storeInformation", "channels", "storefrontToken",
     "checkEligibility", "createChannel"}

\* C6: an answer that is not 2xx to a fatal step ends the run with the error
\* written and exit code 1; nothing is requested afterwards, and no request of a
\* later step has been made (none to channel menus when the listing fails).
FatalStepHalts ==
    [][/\ \A m \in FatalMethods :
            (Answered(m) /\ ~Ok(lastStatus'))
            => /\ outcome' = "exit1"
               /\ errors' = errors + 1
               /\ ret' = NoValue
               /\ \A l \in MethodSet : Index(l) > Index(m) => fetched'[l] = 0
       /\ outcome = "exit1" => (fetched' = fetched /\ calls' = calls)]_vars

FatalStepHaltsWitness ==
    /\ outcome = "exit1"
    /\ pc = "channels"
    /\ lastStatus = 403
    /\ fetched["channels"] = 1
    /\ fetched["createChannelMenus"] = 0

SchemaOf(m, b) ==
    CASE m = "getDeviceCode" -> DeviceCodeSchema(b)
      [] m = "checkDeviceCode" -> DeviceCodeSuccessSchema(b)
      [] m = "storeInformation" -> BigCommerceStoreInfo(b)
      [] m = "channels" -> BigCommerceChannelsV3ResponseSchema(b)
      [] m = "storefrontToken" -> BigCommerceStorefrontTokenSchema(b)
      [] m = "checkEligibility" -> CheckEligibilitySchema(b)
      [] m = "createChannel" -> SampleDataChannelCreateSchema(b)

\* the statuses on which method m validates the body of the answer
Validates(m, status) == IF m = "checkDeviceCode" THEN status = 200 ELSE Ok(status)

\* C8: an answer whose body is validated and does not match the schema of its
\* step is a fatal validation error: the step returns nothing and the run makes
\* no further step.  For createChannel, an empty name is such an error, and a
\* body with a number id, a non-empty name and a token returns that id and token.
InvalidBodyIsFatal ==
    [][/\ \A m \in FatalMethods \cup {"checkDeviceCode"} :
            (Answered(m) /\ Validates(m, lastStatus') /\ ~SchemaOf(m, lastBody'))
            => (outcome' = "ValidationError" /\ ret' = NoValue /\ grants' = grants)
       /\ outcome = "ValidationError" => FALSE
       /\ (Answered("createChannel") /\ Ok(lastStatus') /\ lastBody'.name = Str(""))
          => (outcome' = "ValidationError" /\ ret' = NoValue)
       /\ (Answered("createChannel") /\ Ok(lastStatus')
           /\ lastBody'.data.t = "object" /\ lastBody'.id.t = "number"
           /\ lastBody'.name.t = "string" /\ lastBody'.name.s # ""
           /\ lastBody'.storefront_api_token.t = "string")
          => /\ outcome' = "done"
             /\ ret'.id = lastBody'.id
             /\ ret'.storefront_api_token = lastBody'.storefront_api_token]_vars

InvalidBodyIsFatalWitness ==
    /\ outcome = "ValidationError"
    /\ pc = "createChannel"
    /\ lastStatus = 200
    /\ lastBody.data = Obj
    /\ lastBody.id = Num(7)
    /\ lastBody.name = Str("")
    /\ lastBody.storefront_api_token = Str("tok")

CeilDiv(a, b) == (a + b - 1) \div b

\* the token endpoint has answered a poll with 200
PollAnswered200 == grants > 0 \/ (pc = "checkDeviceCode" /\ outcome = "ValidationError")

\* C2: with interval I > 0 and expiry E > 0 the loop makes at most ceil(E/I) poll
\* requests, makes none once more than E seconds have elapsed, and, when every
\* poll is answered pending and no cancellation signal comes, ends Expired with
\* the AuthTimeoutError.
DevicePollingBounded ==
    /\ [](deviceCode # NoValue
          => fetched["checkDeviceCode"]
                <= CeilDiv(deviceCode.expires_in.n, deviceCode.interval.n))
    /\ [][fetched'["checkDeviceCode"] > fetched["checkDeviceCode"]
          => ~(elapsed > deviceCode.expires_in.n)]_vars
    /\ (pc = "checkDeviceCode")
          ~> (outcome = "AuthTimeoutError" \/ cancel \/ PollAnswered200)

DevicePollingBoundedWitness ==
    /\ outcome = "AuthTimeoutError"
    /\ AuthState = "Expired"
    /\ deviceCode.expires_in.n = 4
    /\ deviceCode.interval.n = 3
    /\ fetched["checkDeviceCode"] = 2
    /\ ~cancel

\* C7: once the cancellation signal is up no poll request is made; the loop sees
\* the signal at its next iteration boundary and stops there, a pending sleep
\* ending at once; after it has stopped nothing more happens.
PollingCancellable ==
    [][/\ cancel => /\ fetched'["checkDeviceCode"] = fetched["checkDeviceCode"]
                   /\ calls'["checkDeviceCode"] = calls["checkDeviceCode"]
       /\ (At("checkDeviceCode", "sleep") /\ cancel)
          => (At("checkDeviceCode", "call")' /\ elapsed' = elapsed)
       /\ (At("checkDeviceCode", "call") /\ cancel) => outcome' = "cancelled"
       /\ outcome = "cancelled" => FALSE]_vars

PollingCancellableWitness ==
    /\ outcome = "cancelled"
    /\ AuthState = "Cancelled"
    /\ fetched["checkDeviceCode"] = 2
    /\ elapsed = deviceCode.interval.n
    /\ responses = 3

====
